---------------------------- MODULE Spec2Model ----------------------------
(***************************************************************************)
(* A model of appimage-monitor: the one-shot generator                     *)
(* (generate_once.py) and the watch daemon (monitor.py).  Both carry the   *)
(* same three routines: detect_category, extract_and_cache_icons and       *)
(* generate_desktop_file.  Text (names, paths, file contents) is modelled  *)
(* as sequences of one-character strings, so that lower-casing, substring  *)
(* tests, stems, suffixes and byte offsets are computed, not assumed.      *)
(***************************************************************************)
EXTENDS Integers, Sequences, FiniteSets, TLC

(***************************************************************************)
(* Text helpers (Python str / pathlib semantics).                          *)
(***************************************************************************)
UpperLetters == <<"A","B","C","D","E","F","G","H","I","J","K","L","M","N","O","P","Q","R","S","T","U","V","W","X","Y","Z">>
LowerLetters == <<"a","b","c","d","e","f","g","h","i","j","k","l","m","n","o","p","q","r","s","t","u","v","w","x","y","z">>

\* str.lower() on one ASCII character
LowerChar(c) ==
    IF \E i \in 1..Len(UpperLetters) : UpperLetters[i] = c
    THEN LowerLetters[CHOOSE i \in 1..Len(UpperLetters) : UpperLetters[i] = c]
    ELSE c

\* str.lower()
Lower(s) == [i \in 1..Len(s) |-> LowerChar(s[i])]

\* `k in s` for strings: k occurs as a contiguous substring of s
Contains(s, k) ==
    \E i \in 0..(Len(s) - Len(k)) : \A j \in 1..Len(k) : s[i + j] = k[j]

\* s.endswith(k)
EndsWith(s, k) ==
    /\ Len(s) >= Len(k)
    /\ \A j \in 1..Len(k) : s[Len(s) - Len(k) + j] = k[j]


(***************************************************************************)
(* detect_category: the keyword lists, in the order the code tests them.   *)
(***************************************************************************)
BrowserKeywords ==
    << <<"c","h","r","o","m","e">>,
       <<"f","i","r","e","f","o","x">>,
       <<"e","d","g","e">>,
       <<"b","r","a","v","e">>,
       <<"o","p","e","r","a">>,
       <<"s","a","f","a","r","i">>,
       <<"c","h","r","o","m","i","u","m">>,
       <<"l","i","b","r","e","w","o","l","f">>,
       <<"l","i","b","r","e">> >>
DevKeywords ==
    << <<"c","o","d","e">>,
       <<"s","t","u","d","i","o">>,
       <<"i","d","e">>,
       <<"e","d","i","t","o","r">>,
       <<"v","i","m">>,
       <<"e","m","a","c","s">>,
       <<"s","u","b","l","i","m","e">> >>
MediaKeywords ==
    << <<"p","l","a","y","e","r">>,
       <<"v","l","c">>,
       <<"m","p","v">>,
       <<"k","o","d","i">>,
       <<"s","p","o","t","i","f","y">>,
       <<"a","u","d","a","c","i","t","y">> >>
ImgKeywords ==
    << <<"g","i","m","p">>,
       <<"i","n","k","s","c","a","p","e">>,
       <<"b","l","e","n","d","e","r">>,
       <<"k","r","i","t","a">>,
       <<"d","a","r","k","t","a","b","l","e">> >>
OfficeKeywords ==
    << <<"l","i","b","r","e","o","f","f","i","c","e">>,
       <<"o","p","e","n","o","f","f","i","c","e">>,
       <<"w","o","r","d">>,
       <<"e","x","c","e","l">>,
       <<"p","o","w","e","r","p","o","i","n","t">> >>
GameKeywords ==
    << <<"g","a","m","e">>,
       <<"s","t","e","a","m">>,
       <<"m","i","n","e","c","r","a","f","t">>,
       <<"r","o","b","l","o","x">> >>
SysToolKeywords ==
    << <<"t","e","r","m","i","n","a","l">>,
       <<"s","y","s","t","e","m">>,
       <<"a","d","m","i","n">>,
       <<"d","i","s","k">>,
       <<"b","a","c","k","u","p">> >>

BrowserCategory == <<"N","e","t","w","o","r","k",";","W","e","b","B","r","o","w","s","e","r",";">>
DevCategory == <<"D","e","v","e","l","o","p","m","e","n","t",";","I","D","E",";">>
MediaCategory == <<"A","u","d","i","o","V","i","d","e","o",";","A","u","d","i","o",";","V","i","d","e","o",";">>
ImgCategory == <<"G","r","a","p","h","i","c","s",";","2","D","G","r","a","p","h","i","c","s",";","3","D","G","r","a","p","h","i","c","s",";">>
OfficeCategory == <<"O","f","f","i","c","e",";">>
GameCategory == <<"G","a","m","e",";">>
SysToolCategory == <<"S","y","s","t","e","m",";">>
UtilityCategory == <<"U","t","i","l","i","t","y",";">>

\* any(k in s for k in keywords)
AnyIn(keywords, s) ==
    \E text \in {s} : \E i \in 1..Len(keywords) : Contains(text, keywords[i])

\* A plausible slip: the office list is tested before the development list.
detect_category_office_first(name) ==
    LET app_name_lower == Lower(name) IN
    IF AnyIn(BrowserKeywords, app_name_lower) THEN BrowserCategory
    ELSE IF AnyIn(OfficeKeywords, app_name_lower) THEN OfficeCategory
    ELSE IF AnyIn(DevKeywords, app_name_lower) THEN DevCategory
    ELSE IF AnyIn(MediaKeywords, app_name_lower) THEN MediaCategory
    ELSE IF AnyIn(ImgKeywords, app_name_lower) THEN ImgCategory
    ELSE IF AnyIn(GameKeywords, app_name_lower) THEN GameCategory
    ELSE IF AnyIn(SysToolKeywords, app_name_lower) THEN SysToolCategory
    ELSE UtilityCategory

\* detect_category(app_name)
detect_category(name) ==
    LET app_name_lower == Lower(name) IN
    IF AnyIn(BrowserKeywords, app_name_lower) THEN BrowserCategory
    ELSE IF AnyIn(DevKeywords, app_name_lower) THEN DevCategory
    ELSE IF AnyIn(MediaKeywords, app_name_lower) THEN MediaCategory
    ELSE IF AnyIn(ImgKeywords, app_name_lower) THEN ImgCategory
    ELSE IF AnyIn(OfficeKeywords, app_name_lower) THEN OfficeCategory
    ELSE IF AnyIn(GameKeywords, app_name_lower) THEN GameCategory
    ELSE IF AnyIn(SysToolKeywords, app_name_lower) THEN SysToolCategory
    ELSE UtilityCategory

\* None where text is expected (like the empty string, it is falsy)
None == <<>>

(***************************************************************************)
(* pathlib: Path.name, Path.suffix and Path.stem of a path given as text.  *)
(***************************************************************************)
\* str.rfind(c), 1-based; 0 when c does not occur
RFind(s, c) ==
    IF \E i \in 1..Len(s) : s[i] = c
    THEN CHOOSE i \in 1..Len(s) : s[i] = c /\ \A j \in (i + 1)..Len(s) : s[j] # c
    ELSE 0

\* Path(p).name: the final path component
PathName(path) == SubSeq(path, RFind(path, "/") + 1, Len(path))

\* PurePath.suffix: the last dot-component of the name, unless the only dot
\* leads or ends the name
PathSuffix(path) ==
    CHOOSE suffix \in
        {IF 1 < RFind(name, ".") /\ RFind(name, ".") < Len(name)
         THEN SubSeq(name, RFind(name, "."), Len(name)) ELSE <<>> :
            name \in {PathName(path)}} : TRUE

\* PurePath.stem: the name without its suffix
PathStem(path) ==
    CHOOSE stem \in
        {IF 1 < RFind(name, ".") /\ RFind(name, ".") < Len(name)
         THEN SubSeq(name, 1, RFind(name, ".") - 1) ELSE name :
            name \in {PathName(path)}} : TRUE

(***************************************************************************)
(* extract_and_cache_icons.  An extracted tree is the sequence of its      *)
(* files in os.walk order; a file is [name, size, dims], where dims is     *)
(* the <<width, height>> PIL reads, or <<>> when PIL is missing or cannot  *)
(* decode the file.  A file is identified by its position in the tree.     *)
(***************************************************************************)
IconExtensions ==
    << <<".","p","n","g">>, <<".","s","v","g">>, <<".","x","p","m">>, <<".","i","c","o">> >>

\* file.lower().endswith(('.png', '.svg', '.xpm', '.ico'))
IsIconFile(name) ==
    \E i \in 1..Len(IconExtensions) : EndsWith(Lower(name), IconExtensions[i])

\* The walk of lines 86-91: the positions of the icon files, in tree order
FindIconFiles(tree) ==
    SelectSeq([i \in 1..Len(tree) |-> i], LAMBDA i : IsIconFile(tree[i].name))

Min(a, b) == IF a < b THEN a ELSE b

\* The score of one candidate (lines 104-133)
Score(f) ==
    LET suffix == Lower(PathSuffix(f.name))
        base == IF suffix = <<".","s","v","g">> THEN 1000
                ELSE IF suffix = <<".","p","n","g">> THEN 500
                ELSE IF suffix = <<".","x","p","m">> THEN 100
                ELSE IF suffix = <<".","i","c","o">> THEN 50
                ELSE 0
        pixels == IF suffix = <<".","p","n","g">> /\ f.dims # <<>>
                  THEN Min((f.dims[1] * f.dims[2]) \div 1000, 200)
                  ELSE 0
    IN base + Min(f.size \div 1024, 100) + pixels

\* A plausible slip: `score >= best_score`, so the last of equals wins
RECURSIVE ScoreLoopLastWins(_, _, _, _, _)
ScoreLoopLastWins(tree, icon_files, k, best_icon, best_score) ==
    IF k > Len(icon_files) THEN best_icon
    ELSE LET score == Score(tree[icon_files[k]]) IN
         IF score >= best_score
         THEN ScoreLoopLastWins(tree, icon_files, k + 1, icon_files[k], score)
         ELSE ScoreLoopLastWins(tree, icon_files, k + 1, best_icon, best_score)

\* The scoring loop (lines 100-137) from position k of icon_files on
RECURSIVE ScoreLoop(_, _, _, _, _)
ScoreLoop(tree, icon_files, k, best_icon, best_score) ==
    IF k > Len(icon_files) THEN best_icon
    ELSE LET score == Score(tree[icon_files[k]]) IN
         IF score > best_score
         THEN ScoreLoop(tree, icon_files, k + 1, icon_files[k], score)
         ELSE ScoreLoop(tree, icon_files, k + 1, best_icon, best_score)

\* best_icon after the loop: a position of the tree (0 for None)
BestIcon(tree, icon_files) == ScoreLoop(tree, icon_files, 1, 0, -1)

\* A plausible slip: the first two thresholds compare with <= instead of <
CacheSubdirInclusive(f) ==
    IF Lower(PathSuffix(f.name)) = <<".","s","v","g">> THEN "scalable/apps"
    ELSE IF f.size <= 5000 THEN "16x16/apps"
    ELSE IF f.size <= 15000 THEN "32x32/apps"
    ELSE IF f.size < 50000 THEN "48x48/apps"
    ELSE IF f.size < 100000 THEN "64x64/apps"
    ELSE "128x128/apps"

\* cache_subdir, relative to the icon cache root (lines 152-171)
CacheSubdir(f) ==
    IF Lower(PathSuffix(f.name)) = <<".","s","v","g">> THEN "scalable/apps"
    ELSE IF f.size < 5000 THEN "16x16/apps"
    ELSE IF f.size < 15000 THEN "32x32/apps"
    ELSE IF f.size < 50000 THEN "48x48/apps"
    ELSE IF f.size < 100000 THEN "64x64/apps"
    ELSE "128x128/apps"

\* dest_path_no_ext: <<cache_subdir, icon_name>> (lines 148, 175)
DestPath(f) == <<CacheSubdir(f), PathStem(f.name)>>

\* shutil.copy2 into the cache: the destination is created or overwritten.
\* A cached file is remembered as the file copied and its position in its tree.
Copy2(cache, tree, i) ==
    [d \in DOMAIN cache \cup {DestPath(tree[i])} |->
        IF d = DestPath(tree[i]) THEN [file |-> tree[i], at |-> i] ELSE cache[d]]

\* The copy loop (lines 146-177) over positions k..last of icon_files
RECURSIVE CopyLoop(_, _, _, _, _)
CopyLoop(cache, tree, icon_files, k, last) ==
    IF k > last THEN cache
    ELSE CopyLoop(Copy2(cache, tree, icon_files[k]), tree, icon_files, k + 1, last)

\* The "Cached icon: ..." log lines of the first n copies (line 177)
CachedLog(tree, icon_files, n) ==
    [k \in 1..n |-> [src |-> icon_files[k], dest |-> DestPath(tree[icon_files[k]])]]

\* extract_and_cache_icons(appimage_path) as a function of what its environment
\* does: `outcome` is how the steps before the copy loop end ("mkdir_error": the
\* cache root cannot be created, line 64, outside the try; "launch_error": the
\* bundle cannot be executed; "nonzero_exit"; "timeout"; "ok": the bundle was
\* extracted into `tree`), and fail_at is the copy that raises (0: none does).
\* The result: what is returned (None or the best icon's stem), whether an
\* exception leaves the function, the cache, the copies logged and the best
\* icon logged ("Selected best icon", line 143; 0 when the line is not reached).
extract_and_cache_icons(tree, cache, outcome, fail_at) ==
    LET nothing == [icon_name |-> None, raised |-> FALSE, cache |-> cache,
                    log |-> <<>>, best_icon |-> 0]
        result(icon_files, best_icon) ==
            IF outcome = "mkdir_error" THEN [nothing EXCEPT !.raised = TRUE]
            ELSE IF outcome \in {"launch_error", "nonzero_exit", "timeout"} THEN nothing
            ELSE IF Len(icon_files) = 0 THEN nothing
            ELSE IF best_icon = 0 THEN nothing
            ELSE IF fail_at \in 1..Len(icon_files)
            THEN [icon_name |-> None, raised |-> FALSE, best_icon |-> best_icon,
                  cache |-> CopyLoop(cache, tree, icon_files, 1, fail_at - 1),
                  log |-> CachedLog(tree, icon_files, fail_at - 1)]
            ELSE [icon_name |-> PathStem(tree[best_icon].name), raised |-> FALSE,
                  best_icon |-> best_icon,
                  cache |-> CopyLoop(cache, tree, icon_files, 1, Len(icon_files)),
                  log |-> CachedLog(tree, icon_files, Len(icon_files))]
    IN CHOOSE r \in UNION {{result(icon_files, best_icon) :
                               best_icon \in {BestIcon(tree, icon_files)}} :
                             icon_files \in {FindIconFiles(tree)}} : TRUE

ExtractOutcomes == {"mkdir_error", "launch_error", "nonzero_exit", "timeout", "ok"}

(***************************************************************************)
(* generate_desktop_file.  The applications directory maps the name of an  *)
(* entry file to the file: its bytes and its permission bits.              *)
(***************************************************************************)
FallbackIcon == <<"a","p","p","l","i","c","a","t","i","o","n","-","x","-","e","x","e","c","u","t","a","b","l","e">>

\* f"{app_name}.desktop", with app_name = appimage_path.stem (lines 192-193)
DesktopFileName(appimage_path) == PathStem(appimage_path) \o <<".","d","e","s","k","t","o","p">>

\* A plausible slip: the icon name is used even when extraction returned None
IconNoFallback(name) == name

\* icon_name if icon_name else 'application-x-executable' (line 207)
IconOrFallback(name) == IF name # None THEN name ELSE FallbackIcon

\* desktop_content (lines 192, 199, 202-210)
DesktopContent(appimage_path, name) ==
    CHOOSE desktop_content \in {
    <<"[","D","e","s","k","t","o","p"," ","E","n","t","r","y","]","\n","T","y","p","e","=","A","p","p","l","i","c","a","t","i","o","n","\n","N","a","m","e","=">>
    \o app_name
    \o <<"\n","C","o","m","m","e","n","t","=","A","p","p","I","m","a","g","e"," ","A","p","p","l","i","c","a","t","i","o","n","\n","E","x","e","c","=">>
    \o appimage_path
    \o <<" ","%","u","\n","I","c","o","n","=">>
    \o IconOrFallback(name)
    \o <<"\n","T","e","r","m","i","n","a","l","=","f","a","l","s","e","\n","C","a","t","e","g","o","r","i","e","s","=">>
    \o detect_category(app_name)
    \o <<"\n">> : app_name \in {PathStem(appimage_path)}} : TRUE

Absent == [exists |-> FALSE, content |-> <<>>, mode |-> "none"]

FileAt(dir, name) == IF name \in DOMAIN dir THEN dir[name] ELSE Absent

PutFile(dir, name, file) ==
    [n \in DOMAIN dir \cup {name} |-> IF n = name THEN file ELSE dir[n]]

\* A plausible slip: open(desktop_file, 'a'): nothing is truncated and the
\* descriptor writes at the end
OpenA(file) ==
    [file |-> [exists |-> TRUE, content |-> file.content,
               mode |-> IF file.exists THEN file.mode ELSE "644"],
     offset |-> Len(file.content)]

\* open(desktop_file, 'w') (line 213): the file is created (rw-r--r-- under the
\* usual umask) or truncated, and the descriptor starts at offset 0
OpenW(file) ==
    [file |-> [exists |-> TRUE, content |-> <<>>,
               mode |-> IF file.exists THEN file.mode ELSE "644"],
     offset |-> 0]

\* The write of `data` at `offset` that f.write and the close of the with block
\* amount to (line 214): bytes are replaced from the offset on, the file grows
\* as needed, and what lies beyond the data written stays
WriteAt(content, offset, data) ==
    SubSeq(content, 1, Min(offset, Len(content)))
    \o data
    \o SubSeq(content, offset + Len(data) + 1, Len(content))

\* A plausible slip: the database refresh sits outside the try block
OuterCatchesButRefresh(step) == step # "refresh"

\* except Exception (line 228): whichever step raised, the handler takes it
OuterCatches(step) == step \in {"mkdir", "open", "write", "chmod", "refresh"}

\* One run of generate_desktop_file: where it is, its locals, and for the
\* claims the entry file as it was at the call (prior), how the extraction
\* went and the step whose exception the handler logged.
IdleRun ==
    [pc |-> "idle", appimage_path |-> None, icon_name |-> None,
     desktop_content |-> None, offset |-> 0, prior |-> Absent,
     extraction |-> "none", error |-> "none"]

\* An exception raised by `step` inside the try block (lines 191, 228-229)
Raise(r, step) ==
    [r EXCEPT !.pc = IF OuterCatches(step) THEN "return" ELSE "raised",
              !.error = step]

\* update-desktop-database: it succeeds, exits non-zero (CalledProcessError),
\* is not installed (FileNotFoundError), or cannot be run (another OSError)
RefreshOutcomes == {"ok", "CalledProcessError", "FileNotFoundError", "OSError"}

(***************************************************************************)
(* State.                                                                  *)
(***************************************************************************)
VARIABLES
    app_name,     \* detect_category: its argument
    category,     \* detect_category: its return value (None before the call)
    cpc,          \* detect_category: "call" before, "done" after
    tree,         \* extract_and_cache_icons: the files the bundle extracts to
    icon_name,    \* extract_and_cache_icons: its return value
    best_icon,    \* extract_and_cache_icons: the icon it logs as selected (0: none)
    extraction,   \* extract_and_cache_icons: how the call went
    cached_log,   \* extract_and_cache_icons: its "Cached icon" log lines
    ipc,          \* extract_and_cache_icons: "call", "done" or "raised"
    cache,        \* the icon cache: <<cache_subdir, icon_name>> -> cached file
    desktop,      \* the applications directory: entry file name -> file
    run,          \* per process, its run of generate_desktop_file
    script,       \* repeated generation: what the environment does at each step
    round,        \* repeated generation: the calls made so far
    after_first,  \* repeated generation: the applications directory after call 1
    listing,      \* generate_once main: the files of the AppImages directory
    appimages,    \* generate_once main: the list the glob returned
    idx,          \* generate_once main: the position of the for loop
    main_pc,      \* generate_once main: where main is
    calls,        \* generate_once main: calls of generate_desktop_file, per path
    error_log,    \* generate_once main: the paths of the "Error generating" lines
    queue,        \* monitor: the events the observer has not dispatched yet
    dispatched,   \* monitor: the events dispatched so far
    runs          \* monitor: the paths generate_desktop_file was called with

catVars == <<app_name, category, cpc>>
iconVars == <<tree, icon_name, best_icon, extraction, cached_log, ipc>>
genVars == <<cache, desktop, run>>
twiceVars == <<script, round, after_first>>
batchVars == <<listing, appimages, idx, main_pc, calls, error_log>>
watchVars == <<queue, dispatched, runs>>
vars == <<catVars, iconVars, genVars, twiceVars, batchVars, watchVars>>

\* The processes that run generate_desktop_file: the one-shot script and the
\* monitor's observer thread.
Procs == {"once", "monitor"}

EmptyCache == [d \in {} |-> None]
EmptyDir == [n \in {} |-> Absent]

\* The routines and drivers a specification does not exercise stay idle.
CatIdle == app_name = None /\ category = None /\ cpc = "idle"
IconIdle ==
    /\ tree = <<>> /\ icon_name = None /\ best_icon = 0
    /\ extraction = "none" /\ cached_log = <<>> /\ ipc = "idle"
GenIdle == cache = EmptyCache /\ desktop = EmptyDir /\ run = [p \in Procs |-> IdleRun]
TwiceIdle == script = <<>> /\ round = 0 /\ after_first = EmptyDir
BatchIdle ==
    /\ listing = <<>> /\ appimages = <<>> /\ idx = 0 /\ main_pc = "idle"
    /\ calls = [n \in {} |-> 0] /\ error_log = {}
WatchIdle == queue = <<>> /\ dispatched = <<>> /\ runs = <<>>

(***************************************************************************)
(* Inputs of the classifier: names made of at most two keywords with       *)
(* padding before, between and after, in three letter cases.               *)
(***************************************************************************)
MaxPad == 1

RangeOf(seq) == {seq[i] : i \in 1..Len(seq)}

AllKeywords ==
    RangeOf(BrowserKeywords) \cup RangeOf(DevKeywords) \cup RangeOf(MediaKeywords)
    \cup RangeOf(ImgKeywords) \cup RangeOf(OfficeKeywords) \cup RangeOf(GameKeywords)
    \cup RangeOf(SysToolKeywords)

Pads == {[i \in 1..n |-> "-"] : n \in 0..MaxPad}

UpperChar(c) ==
    IF \E i \in 1..Len(LowerLetters) : LowerLetters[i] = c
    THEN UpperLetters[CHOOSE i \in 1..Len(LowerLetters) : LowerLetters[i] = c]
    ELSE c

Cased(s, mode) ==
    [i \in 1..Len(s) |->
        IF mode = "upper" \/ (mode = "title" /\ i = 1) THEN UpperChar(s[i]) ELSE s[i]]

CatNames ==
    {Cased(p1 \o k1 \o p2 \o k2 \o p3, mode) :
        p1 \in Pads, k1 \in AllKeywords \cup {<<>>}, p2 \in Pads,
        k2 \in AllKeywords \cup {<<>>}, p3 \in Pads,
        mode \in {"asis", "upper", "title"}}

(***************************************************************************)
(* Specification of the classifier alone.                                  *)
(***************************************************************************)
InitCat ==
    /\ app_name \in CatNames
    /\ category = None
    /\ cpc = "call"
    /\ IconIdle /\ GenIdle /\ TwiceIdle /\ BatchIdle /\ WatchIdle

DetectCategory ==
    /\ cpc = "call"
    /\ category' = detect_category(app_name)
    /\ cpc' = "done"
    /\ UNCHANGED <<app_name, iconVars, genVars, twiceVars, batchVars, watchVars>>

NextCat == DetectCategory

SpecCat == InitCat /\ [][NextCat]_vars

(***************************************************************************)
(* Specification of extract_and_cache_icons alone: one call on an          *)
(* extracted tree of at most MaxFiles files.                               *)
(***************************************************************************)
MaxFiles == 2

FileSizes == {4999, 5000, 14999, 15000, 20000, 49999, 50000, 99999, 100000, 204800}

FileUniverse ==
    {[name |-> <<"a",".","s","v","g">>, size |-> s, dims |-> <<>>] : s \in {4999, 204800}}
    \cup {[name |-> <<"b",".","P","N","G">>, size |-> s, dims |-> <<>>] :
             s \in {4999, 5000, 20000, 204800}}
    \cup {[name |-> <<"b",".","P","N","G">>, size |-> s, dims |-> d] :
             s \in {4999, 20000}, d \in {<<100, 50>>, <<512, 512>>}}
    \cup {[name |-> <<"c",".","x","p","m">>, size |-> s, dims |-> <<>>] : s \in FileSizes}
    \cup {[name |-> <<"d",".","i","c","o">>, size |-> s, dims |-> <<>>] :
             s \in {4999, 99999, 204800}}
    \cup {[name |-> <<".","p","n","g">>, size |-> 204800, dims |-> <<>>],
          [name |-> <<"a",".","t","x","t">>, size |-> 4999, dims |-> <<>>]}

Trees == UNION {[1..n -> FileUniverse] : n \in 0..MaxFiles}

InitIcon ==
    /\ tree \in Trees
    /\ cache = EmptyCache
    /\ icon_name = None
    /\ best_icon = 0
    /\ extraction = "none"
    /\ cached_log = <<>>
    /\ ipc = "call"
    /\ desktop = EmptyDir /\ run = [p \in Procs |-> IdleRun]
    /\ CatIdle /\ TwiceIdle /\ BatchIdle /\ WatchIdle

ExtractAndCacheIcons ==
    /\ ipc = "call"
    /\ \E outcome \in ExtractOutcomes, fail_at \in 0..Len(tree) :
        /\ outcome # "ok" => fail_at = 0
        /\ fail_at <= Len(FindIconFiles(tree))
        /\ \E r \in {extract_and_cache_icons(tree, cache, outcome, fail_at)} :
            /\ extraction' = IF outcome = "ok" /\ fail_at # 0 THEN "copy_error" ELSE outcome
            /\ icon_name' = r.icon_name
            /\ best_icon' = r.best_icon
            /\ cache' = r.cache
            /\ cached_log' = r.log
            /\ ipc' = IF r.raised THEN "raised" ELSE "done"
    /\ UNCHANGED <<tree, desktop, run, catVars, twiceVars, batchVars, watchVars>>

NextIcon == ExtractAndCacheIcons

SpecIcon == InitIcon /\ [][NextIcon]_vars

(***************************************************************************)
(* The steps of one run of generate_desktop_file by process p.  What the   *)
(* environment does at a step (does the call fail, how) is a parameter.    *)
(***************************************************************************)
\* The call: generate_desktop_file(appimage_path, desktop_dir)
GCall(p, path) ==
    /\ run[p].pc \in {"idle", "return"}
    /\ run' = [run EXCEPT ![p] =
                  [IdleRun EXCEPT !.pc = "extract",
                                  !.appimage_path = path,
                                  !.prior = FileAt(desktop, DesktopFileName(path))]]
    /\ UNCHANGED <<cache, desktop>>

\* Lines 192-210: extract_and_cache_icons, detect_category, the content
GExtract(p, outcome, t, fail_at) ==
    /\ run[p].pc = "extract"
    /\ outcome # "ok" => (t = <<>> /\ fail_at = 0)
    /\ fail_at <= Len(FindIconFiles(t))
    /\ \E r \in {extract_and_cache_icons(t, cache, outcome, fail_at)} :
          /\ cache' = r.cache
          /\ run' = [run EXCEPT ![p] =
                IF r.raised
                THEN Raise([run[p] EXCEPT !.extraction = outcome], "mkdir")
                ELSE [run[p] EXCEPT
                        !.pc = "open",
                        !.icon_name = r.icon_name,
                        !.desktop_content =
                            DesktopContent(run[p].appimage_path, r.icon_name),
                        !.extraction = IF outcome = "ok" /\ fail_at # 0
                                       THEN "copy_error" ELSE outcome]]
    /\ UNCHANGED desktop

\* Line 213: open(desktop_file, 'w')
GOpen(p, ok) ==
    /\ run[p].pc = "open"
    /\ LET name == DesktopFileName(run[p].appimage_path)
           o == OpenW(FileAt(desktop, name))
       IN IF ok
          THEN /\ desktop' = PutFile(desktop, name, o.file)
               /\ run' = [run EXCEPT ![p].pc = "write", ![p].offset = o.offset]
          ELSE /\ desktop' = desktop
               /\ run' = [run EXCEPT ![p] = Raise(run[p], "open")]
    /\ UNCHANGED cache

\* Line 214 and the end of the with block: the content reaches the file, or
\* only its first `written` bytes do before the write fails
GWrite(p, ok, written) ==
    /\ run[p].pc = "write"
    /\ ok => written = 0
    /\ written < Len(run[p].desktop_content)
    /\ LET name == DesktopFileName(run[p].appimage_path)
           file == FileAt(desktop, name)
           data == IF ok THEN run[p].desktop_content
                   ELSE SubSeq(run[p].desktop_content, 1, written)
       IN /\ desktop' = PutFile(desktop, name,
                 [file EXCEPT !.exists = TRUE,
                              !.content = WriteAt(file.content, run[p].offset, data)])
          /\ run' = [run EXCEPT ![p] =
                        IF ok THEN [run[p] EXCEPT !.pc = "chmod"]
                        ELSE Raise(run[p], "write")]
    /\ UNCHANGED cache

\* Line 215: os.chmod(desktop_file, 0o755)
GChmod(p, ok) ==
    /\ run[p].pc = "chmod"
    /\ LET name == DesktopFileName(run[p].appimage_path) IN
       IF ok /\ name \in DOMAIN desktop
       THEN /\ desktop' = [desktop EXCEPT ![name].mode = "755"]
            /\ run' = [run EXCEPT ![p].pc = "refresh"]
       ELSE /\ desktop' = desktop
            /\ run' = [run EXCEPT ![p] = Raise(run[p], "chmod")]
    /\ UNCHANGED cache

\* Lines 219-226: update-desktop-database; a failure of the command and its
\* absence are warnings, anything else goes to the outer handler
GRefresh(p, outcome) ==
    /\ run[p].pc = "refresh"
    /\ run' = [run EXCEPT ![p] =
                  IF outcome = "OSError" THEN Raise(run[p], "refresh")
                  ELSE [run[p] EXCEPT !.pc = "return"]]
    /\ UNCHANGED <<cache, desktop>>

(***************************************************************************)
(* Repeated generation: generate_desktop_file is called twice in a row     *)
(* for the same bundle, and the environment (the bundle's extraction, the  *)
(* file system, update-desktop-database) behaves the same way both times,  *)
(* as `script` says.  A failed write leaves at most MaxPartial bytes.      *)
(***************************************************************************)
MaxPartial == 1

GenTrees ==
    { <<>>,
      << [name |-> <<"a",".","s","v","g">>, size |-> 4999, dims |-> <<>>] >>,
      << [name |-> <<"b",".","P","N","G">>, size |-> 4999, dims |-> <<>>],
         [name |-> <<"c",".","x","p","m">>, size |-> 4999, dims |-> <<>>] >> }

\* Each script names one way a run can go: the steps after a failing one are
\* never reached and keep their default.
Scripts ==
    UNION {
      {s \in [outcome : {o}, tree : {t}, fail_at : 0..Len(FindIconFiles(t)),
              open : BOOLEAN, write : BOOLEAN, written : 0..MaxPartial,
              chmod : BOOLEAN, refresh : RefreshOutcomes] :
          /\ o # "ok" => (t = <<>> /\ s.fail_at = 0)
          /\ s.write => s.written = 0
          /\ (o = "mkdir_error" \/ ~s.open) => (s.write /\ s.chmod /\ s.refresh = "ok")
          /\ ~s.write => (s.chmod /\ s.refresh = "ok")
          /\ ~s.chmod => s.refresh = "ok"}
      : o \in ExtractOutcomes, t \in GenTrees}

BundlePaths ==
    { <<"/","h","/","A","p","p","I","m","a","g","e","s","/","v","l","c",".","A","p","p","I","m","a","g","e">>,
      <<"/","h","/","A","p","p","I","m","a","g","e","s","/","a",".","A","p","p","I","m","a","g","e">> }

\* An entry left by something else: not a rendering of the template.
OldEntry == [exists |-> TRUE, content |-> <<"o","l","d","\n">>, mode |-> "755"]

StartDirs(path) == {EmptyDir, PutFile(EmptyDir, DesktopFileName(path), OldEntry)}

InitTwice ==
    /\ script \in Scripts
    /\ round = 0
    /\ after_first = EmptyDir
    /\ \E path \in BundlePaths :
          /\ desktop \in StartDirs(path)
          /\ run = [p \in Procs |-> IF p = "once"
                                   THEN [IdleRun EXCEPT !.appimage_path = path]
                                   ELSE IdleRun]
    /\ cache = EmptyCache
    /\ CatIdle /\ IconIdle /\ BatchIdle /\ WatchIdle

\* The caller: the first call, and the second once the first has returned
TwiceCall ==
    /\ round < 2
    /\ round = 0 => run["once"].pc = "idle"
    /\ round = 1 => run["once"].pc = "return"
    /\ GCall("once", run["once"].appimage_path)
    /\ round' = round + 1
    /\ after_first' = IF round = 1 THEN desktop ELSE after_first
    /\ UNCHANGED <<script, catVars, iconVars, batchVars, watchVars>>

TwiceExtract ==
    /\ GExtract("once", script.outcome, script.tree, script.fail_at)
    /\ UNCHANGED <<twiceVars, catVars, iconVars, batchVars, watchVars>>

TwiceOpen ==
    /\ GOpen("once", script.open)
    /\ UNCHANGED <<twiceVars, catVars, iconVars, batchVars, watchVars>>

TwiceWrite ==
    /\ GWrite("once", script.write, script.written)
    /\ UNCHANGED <<twiceVars, catVars, iconVars, batchVars, watchVars>>

TwiceChmod ==
    /\ GChmod("once", script.chmod)
    /\ UNCHANGED <<twiceVars, catVars, iconVars, batchVars, watchVars>>

TwiceRefresh ==
    /\ GRefresh("once", script.refresh)
    /\ UNCHANGED <<twiceVars, catVars, iconVars, batchVars, watchVars>>

NextTwice ==
    \/ TwiceCall
    \/ TwiceExtract
    \/ TwiceOpen
    \/ TwiceWrite
    \/ TwiceChmod
    \/ TwiceRefresh

SpecTwice == InitTwice /\ [][NextTwice]_vars

(***************************************************************************)
(* The one-shot script: main of generate_once.py from the glob on, over a  *)
(* directory of at most MaxBundles files.  Every step of every run may     *)
(* fail.                                                                   *)
(***************************************************************************)
MaxBundles == 2

AppImageDir == <<"/","h","/","A","p","p","I","m","a","g","e","s">>
AppImageExt == <<".","A","p","p","I","m","a","g","e">>

DirNames ==
    { <<"v","l","c",".","A","p","p","I","m","a","g","e">>,
      <<"a",".","A","p","p","I","m","a","g","e">>,
      <<"b",".","a","p","p","i","m","a","g","e">>,
      <<"n","o","t","e","s",".","t","x","t">> }

\* The directories main may find: their files in the order the glob meets them
Listings ==
    {l \in UNION {[1..n -> DirNames] : n \in 0..MaxBundles} :
        \A i, j \in 1..Len(l) : i # j => l[i] # l[j]}

\* list(appimage_dir.glob("*.AppImage")) (line 244)
Glob(l) ==
    LET matching == SelectSeq(l, LAMBDA name : EndsWith(name, AppImageExt))
    IN [i \in 1..Len(matching) |-> AppImageDir \o <<"/">> \o matching[i]]

InitBatch ==
    /\ listing \in Listings
    /\ appimages = <<>>
    /\ idx = 0
    /\ main_pc = "glob"
    /\ calls = [n \in {} |-> 0]
    /\ error_log = {}
    /\ cache = EmptyCache
    /\ desktop \in StartDirs(<<"/","h","/","A","p","p","I","m","a","g","e","s","/","v","l","c",".","A","p","p","I","m","a","g","e">>)
    /\ run = [p \in Procs |-> IdleRun]
    /\ CatIdle /\ IconIdle /\ TwiceIdle /\ WatchIdle

\* Lines 244-250
MainGlob ==
    /\ main_pc = "glob"
    /\ appimages' = Glob(listing)
    /\ calls' = [path \in RangeOf(Glob(listing)) |-> 0]
    /\ idx' = 1
    /\ main_pc' = IF Glob(listing) = <<>> THEN "done" ELSE "loop"
    /\ UNCHANGED <<listing, error_log, genVars, catVars, iconVars, twiceVars, watchVars>>

\* Lines 253-255: the loop calls generate_desktop_file for the next bundle
MainCall ==
    /\ main_pc = "loop"
    /\ GCall("once", appimages[idx])
    /\ calls' = [calls EXCEPT ![appimages[idx]] = @ + 1]
    /\ main_pc' = "in_call"
    /\ UNCHANGED <<listing, appimages, idx, error_log, catVars, iconVars, twiceVars, watchVars>>

MainExtract ==
    /\ \E outcome \in ExtractOutcomes, t \in GenTrees :
          \E fail_at \in 0..Len(t) : GExtract("once", outcome, t, fail_at)
    /\ UNCHANGED <<batchVars, catVars, iconVars, twiceVars, watchVars>>

MainOpen ==
    /\ \E ok \in BOOLEAN : GOpen("once", ok)
    /\ UNCHANGED <<batchVars, catVars, iconVars, twiceVars, watchVars>>

MainWrite ==
    /\ \E ok \in BOOLEAN, written \in 0..MaxPartial : GWrite("once", ok, written)
    /\ UNCHANGED <<batchVars, catVars, iconVars, twiceVars, watchVars>>

MainChmod ==
    /\ \E ok \in BOOLEAN : GChmod("once", ok)
    /\ UNCHANGED <<batchVars, catVars, iconVars, twiceVars, watchVars>>

MainRefresh ==
    /\ \E outcome \in RefreshOutcomes : GRefresh("once", outcome)
    /\ UNCHANGED <<batchVars, catVars, iconVars, twiceVars, watchVars>>

\* The call is over: it returned (the loop goes on, line 253, or main ends,
\* line 257) or an exception left it, which nothing in main catches
MainNext ==
    /\ main_pc = "in_call"
    /\ run["once"].pc \in {"return", "raised"}
    /\ error_log' = IF run["once"].pc = "return" /\ run["once"].error # "none"
                    THEN error_log \cup {run["once"].appimage_path}
                    ELSE error_log
    /\ idx' = IF run["once"].pc = "return" THEN idx + 1 ELSE idx
    /\ main_pc' = IF run["once"].pc = "raised" THEN "crashed"
                  ELSE IF idx + 1 > Len(appimages) THEN "done"
                  ELSE "loop"
    /\ UNCHANGED <<listing, appimages, calls, genVars, catVars, iconVars, twiceVars, watchVars>>

NextBatch ==
    \/ MainGlob
    \/ MainCall
    \/ MainExtract
    \/ MainOpen
    \/ MainWrite
    \/ MainChmod
    \/ MainRefresh
    \/ MainNext

SpecBatch == InitBatch /\ [][NextBatch]_vars

\* main is one thread that runs until it ends: whenever a step is possible,
\* one is taken.
SpecBatchFair == SpecBatch /\ WF_vars(NextBatch)

(***************************************************************************)
(* Two runs at once: the one-shot script and the monitor are separate      *)
(* processes, and each may be inside generate_desktop_file (the monitor's  *)
(* copy of the routine is the same code) for a bundle of the same stem,    *)
(* hence for the same entry file.  Their steps interleave freely; each     *)
(* process sees its own extraction of its bundle.                          *)
(***************************************************************************)
RacePaths ==
    { <<"/","h","/","A","p","p","I","m","a","g","e","s","/","v","l","c",".","A","p","p","I","m","a","g","e">>,
      <<"/","w","/","v","l","c",".","A","p","p","I","m","a","g","e">> }

InitRace ==
    /\ cache = EmptyCache
    /\ desktop = EmptyDir
    /\ run = [p \in Procs |-> IdleRun]
    /\ CatIdle /\ IconIdle /\ TwiceIdle /\ BatchIdle /\ WatchIdle

RaceCall ==
    /\ \E p \in Procs, path \in RacePaths :
          /\ run[p].pc = "idle"
          /\ GCall(p, path)
    /\ UNCHANGED <<catVars, iconVars, twiceVars, batchVars, watchVars>>

RaceExtract ==
    /\ \E p \in Procs, outcome \in ExtractOutcomes, t \in GenTrees :
          \E fail_at \in 0..Len(t) : GExtract(p, outcome, t, fail_at)
    /\ UNCHANGED <<catVars, iconVars, twiceVars, batchVars, watchVars>>

RaceOpen ==
    /\ \E p \in Procs, ok \in BOOLEAN : GOpen(p, ok)
    /\ UNCHANGED <<catVars, iconVars, twiceVars, batchVars, watchVars>>

RaceWrite ==
    /\ \E p \in Procs, ok \in BOOLEAN, written \in 0..MaxPartial : GWrite(p, ok, written)
    /\ UNCHANGED <<catVars, iconVars, twiceVars, batchVars, watchVars>>

RaceChmod ==
    /\ \E p \in Procs, ok \in BOOLEAN : GChmod(p, ok)
    /\ UNCHANGED <<catVars, iconVars, twiceVars, batchVars, watchVars>>

RaceRefresh ==
    /\ \E p \in Procs, outcome \in RefreshOutcomes : GRefresh(p, outcome)
    /\ UNCHANGED <<catVars, iconVars, twiceVars, batchVars, watchVars>>

NextRace ==
    \/ RaceCall
    \/ RaceExtract
    \/ RaceOpen
    \/ RaceWrite
    \/ RaceChmod
    \/ RaceRefresh

SpecRace == InitRace /\ [][NextRace]_vars

(***************************************************************************)
(* Watch mode: monitor.py.  The observer thread takes the events of the    *)
(* watched directory one at a time, in order, and hands each to the        *)
(* handler method of its type; on_created and on_moved are AppImageHandler *)
(* methods, the other types reach the do-nothing methods of the base       *)
(* class.  The handler runs generate_desktop_file to its end before the    *)
(* next event is taken.  At most MaxEvents events arrive.                  *)
(***************************************************************************)
MaxEvents == 2

Event(type, is_dir, src, dest) ==
    [event_type |-> type, is_directory |-> is_dir, src_path |-> src, dest_path |-> dest]

EventUniverse ==
    { Event("created", FALSE, <<"/","w","/","v","l","c",".","A","p","p","I","m","a","g","e">>, None),
      Event("created", TRUE, <<"/","w","/","d",".","A","p","p","I","m","a","g","e">>, None),
      Event("created", FALSE, <<"/","w","/","n","o","t","e","s",".","t","x","t">>, None),
      Event("created", FALSE, <<"/","w","/","b",".","a","p","p","i","m","a","g","e">>, None),
      Event("moved", FALSE, <<"/","w","/","a",".","p","a","r","t">>,
            <<"/","w","/","a",".","A","p","p","I","m","a","g","e">>),
      Event("moved", FALSE, <<"/","w","/","v","l","c",".","A","p","p","I","m","a","g","e">>,
            <<"/","w","/","v","l","c",".","b","a","k">>),
      Event("moved", TRUE, <<"/","w","/","x">>,
            <<"/","w","/","y",".","A","p","p","I","m","a","g","e">>),
      Event("modified", FALSE, <<"/","w","/","v","l","c",".","A","p","p","I","m","a","g","e">>, None),
      Event("deleted", FALSE, <<"/","w","/","v","l","c",".","A","p","p","I","m","a","g","e">>, None) }

EventStreams == UNION {[1..n -> EventUniverse] : n \in 0..MaxEvents}

\* Path(text): the text split at "/", empty and "." components dropped
RECURSIVE PathParts(_, _, _)
PathParts(s, i, part) ==
    IF i > Len(s) \/ s[i] = "/"
    THEN (IF part \in {<<>>, <<".">>} THEN <<>> ELSE <<part>>)
         \o (IF i > Len(s) THEN <<>> ELSE PathParts(s, i + 1, <<>>))
    ELSE PathParts(s, i + 1, Append(part, s[i]))

RECURSIVE JoinParts(_)
JoinParts(parts) ==
    IF parts = <<>> THEN <<>> ELSE <<"/">> \o Head(parts) \o JoinParts(Tail(parts))

Path(text) ==
    CHOOSE path \in
        {IF text # <<>> /\ text[1] = "/"
         THEN (IF parts = <<>> THEN <<"/">> ELSE JoinParts(parts))
         ELSE (IF parts = <<>> THEN <<".">> ELSE Tail(JoinParts(parts))) :
            parts \in {PathParts(text, 1, <<>>)}} : TRUE

\* A plausible slip: on_moved looks at where the file came from
MovedPathIsSource(event) == event.src_path

\* on_moved works on event.dest_path (lines 42-44)
MovedPath(event) == event.dest_path

InitWatch ==
    /\ queue \in EventStreams
    /\ dispatched = <<>>
    /\ runs = <<>>
    /\ GenIdle
    /\ CatIdle /\ IconIdle /\ TwiceIdle /\ BatchIdle

\* The observer thread is free to take the next event
HandlerFree == run["monitor"].pc \in {"idle", "return"}

\* on_created (lines 36-39)
OnCreated ==
    /\ HandlerFree
    /\ queue # <<>>
    /\ Head(queue).event_type = "created"
    /\ queue' = Tail(queue)
    /\ dispatched' = Append(dispatched, Head(queue))
    /\ IF ~Head(queue).is_directory /\ EndsWith(Head(queue).src_path, AppImageExt)
       THEN /\ GCall("monitor", Path(Head(queue).src_path))
            /\ runs' = Append(runs, Path(Head(queue).src_path))
       ELSE UNCHANGED <<genVars, runs>>
    /\ UNCHANGED <<catVars, iconVars, twiceVars, batchVars>>

\* on_moved (lines 41-44)
OnMoved ==
    /\ HandlerFree
    /\ queue # <<>>
    /\ Head(queue).event_type = "moved"
    /\ queue' = Tail(queue)
    /\ dispatched' = Append(dispatched, Head(queue))
    /\ IF ~Head(queue).is_directory /\ EndsWith(MovedPath(Head(queue)), AppImageExt)
       THEN /\ GCall("monitor", Path(MovedPath(Head(queue))))
            /\ runs' = Append(runs, Path(MovedPath(Head(queue))))
       ELSE UNCHANGED <<genVars, runs>>
    /\ UNCHANGED <<catVars, iconVars, twiceVars, batchVars>>

\* on_modified, on_deleted: AppImageHandler does not override them (line 30)
OnOther ==
    /\ HandlerFree
    /\ queue # <<>>
    /\ Head(queue).event_type \in {"modified", "deleted"}
    /\ queue' = Tail(queue)
    /\ dispatched' = Append(dispatched, Head(queue))
    /\ UNCHANGED <<genVars, runs, catVars, iconVars, twiceVars, batchVars>>

WatchExtract ==
    /\ \E outcome \in ExtractOutcomes, t \in GenTrees :
          \E fail_at \in 0..Len(t) : GExtract("monitor", outcome, t, fail_at)
    /\ UNCHANGED <<watchVars, catVars, iconVars, twiceVars, batchVars>>

WatchOpen ==
    /\ \E ok \in BOOLEAN : GOpen("monitor", ok)
    /\ UNCHANGED <<watchVars, catVars, iconVars, twiceVars, batchVars>>

WatchWrite ==
    /\ \E ok \in BOOLEAN, written \in 0..MaxPartial : GWrite("monitor", ok, written)
    /\ UNCHANGED <<watchVars, catVars, iconVars, twiceVars, batchVars>>

WatchChmod ==
    /\ \E ok \in BOOLEAN : GChmod("monitor", ok)
    /\ UNCHANGED <<watchVars, catVars, iconVars, twiceVars, batchVars>>

WatchRefresh ==
    /\ \E outcome \in RefreshOutcomes : GRefresh("monitor", outcome)
    /\ UNCHANGED <<watchVars, catVars, iconVars, twiceVars, batchVars>>

NextWatch ==
    \/ OnCreated
    \/ OnMoved
    \/ OnOther
    \/ WatchExtract
    \/ WatchOpen
    \/ WatchWrite
    \/ WatchChmod
    \/ WatchRefresh

SpecWatch == InitWatch /\ [][NextWatch]_vars

(***************************************************************************)
(* Claims about detect_category.                                           *)
(***************************************************************************)
\* The category table of the specification: groups in their listed order.
CategoryTable ==
    << [keywords |-> BrowserKeywords, category |-> BrowserCategory],
       [keywords |-> DevKeywords,     category |-> DevCategory],
       [keywords |-> MediaKeywords,   category |-> MediaCategory],
       [keywords |-> ImgKeywords,     category |-> ImgCategory],
       [keywords |-> OfficeKeywords,  category |-> OfficeCategory],
       [keywords |-> GameKeywords,    category |-> GameCategory],
       [keywords |-> SysToolKeywords, category |-> SysToolCategory] >>

\* The groups with at least one keyword occurring in the lower-cased name l.
MatchingGroups(l) ==
    {g \in 1..Len(CategoryTable) :
        \E k \in RangeOf(CategoryTable[g].keywords) : Contains(l, k)}

\* C8: detect_category is total and first-match-wins: it returns the category
\* of the earliest listed group with a keyword occurring in the lower-cased
\* name, and 'Utility;' exactly when no keyword of any group occurs.
C8_FirstMatchWins ==
    cpc = "done" =>
        \A M \in {MatchingGroups(Lower(app_name))} :
            /\ category # None
            /\ (M = {}) <=> (category = UtilityCategory)
            /\ \A g \in M :
                   (\A h \in M : g <= h) => category = CategoryTable[g].category

\* A classified name holding keywords of two different groups, in upper case.
C8_Witness ==
    /\ cpc = "done"
    /\ app_name # Lower(app_name)
    /\ \E M \in {MatchingGroups(Lower(app_name))} :
           /\ Cardinality(M) >= 2
           /\ \E g \in M : /\ \A h \in M : g <= h
                           /\ category = CategoryTable[g].category

\* C10: every keyword of the table is effective for its own group: a name equal
\* to keyword k of group g, in any letter case, is classified into the category
\* of g.
C10_EveryKeywordEffective ==
    cpc = "done" =>
        \A l \in {Lower(app_name)} :
            \A g \in 1..Len(CategoryTable) :
                \A k \in RangeOf(CategoryTable[g].keywords) :
                    l = k => category = CategoryTable[g].category

(***************************************************************************)
(* Claims about extract_and_cache_icons.                                   *)
(***************************************************************************)
\* The format of a candidate: its lower-cased suffix.
FormatOf(f) == Lower(PathSuffix(f.name))

\* The score the specification gives: format base + size bonus + PNG pixel bonus.
FormatBase(f) ==
    CASE FormatOf(f) = <<".","s","v","g">> -> 1000
      [] FormatOf(f) = <<".","p","n","g">> -> 500
      [] FormatOf(f) = <<".","x","p","m">> -> 100
      [] FormatOf(f) = <<".","i","c","o">> -> 50
      [] OTHER -> 0

SizeBonus(f) == IF f.size \div 1024 > 100 THEN 100 ELSE f.size \div 1024

PixelBonus(f) ==
    IF FormatOf(f) = <<".","p","n","g">> /\ f.dims # <<>>
    THEN (IF (f.dims[1] * f.dims[2]) \div 1000 > 200 THEN 200
          ELSE (f.dims[1] * f.dims[2]) \div 1000)
    ELSE 0

SpecScore(f) == FormatBase(f) + SizeBonus(f) + PixelBonus(f)

\* C6: for every non-empty list of candidates the identifier returned is the
\* stem of the candidate with the highest score (format base + min(size div
\* 1024, 100) + for a decodable PNG min(width*height div 1000, 200)), the
\* first of them in enumeration order when several share it; a 20000-byte PNG
\* without decodable dimensions scores 519.
C6_HighestScoreWins ==
    ipc = "done" =>
        \A c \in {FindIconFiles(tree)} :
        \A s \in {[k \in 1..Len(c) |-> SpecScore(tree[c[k]])]} :
            /\ (extraction = "ok" /\ Len(c) > 0) => icon_name # None
            /\ icon_name # None =>
                  \E p \in 1..Len(c) :
                      /\ \A q \in 1..Len(c) : s[q] <= s[p]
                      /\ \A q \in 1..(p - 1) : s[q] < s[p]
                      /\ best_icon = c[p]
                      /\ icon_name = PathStem(tree[c[p]].name)
            /\ \A k \in 1..Len(c) :
                  (/\ FormatOf(tree[c[k]]) = <<".","p","n","g">>
                   /\ tree[c[k]].size = 20000
                   /\ tree[c[k]].dims = <<>>) => Score(tree[c[k]]) = 519

\* Two candidates share the highest score and the first of them is returned.
C6_Witness ==
    /\ ipc = "done"
    /\ icon_name # None
    /\ \E c \in {FindIconFiles(tree)} :
          /\ Len(c) = 2
          /\ SpecScore(tree[c[1]]) = SpecScore(tree[c[2]])
          /\ tree[c[1]] # tree[c[2]]
          /\ best_icon = c[1]

\* The cache directory the specification gives a candidate.
SpecBucket(f) ==
    IF FormatOf(f) = <<".","s","v","g">> THEN "scalable/apps"
    ELSE CASE f.size <= 4999 -> "16x16/apps"
           [] 5000 <= f.size /\ f.size <= 14999 -> "32x32/apps"
           [] 15000 <= f.size /\ f.size <= 49999 -> "48x48/apps"
           [] 50000 <= f.size /\ f.size <= 99999 -> "64x64/apps"
           [] 100000 <= f.size -> "128x128/apps"

\* C7: after a successful extraction every enumerated candidate, not only the
\* winner, has been copied into the cache under its stem: an SVG under
\* scalable/apps, any other under the bucket of its byte size (16x16 below
\* 5000, 32x32 below 15000, 48x48 below 50000, 64x64 below 100000, else
\* 128x128).
C7_EveryCandidateCached ==
    (ipc = "done" /\ icon_name # None) =>
        \A c \in {FindIconFiles(tree)} :
            /\ Len(cached_log) = Len(c)
            /\ \A k \in 1..Len(c) :
                  \A d \in {<<SpecBucket(tree[c[k]]), PathStem(tree[c[k]].name)>>} :
                      /\ cached_log[k] = [src |-> c[k], dest |-> d]
                      /\ d \in DOMAIN cache
                      /\ \E j \in 1..Len(c) :
                            cache[d] = [file |-> tree[c[j]], at |-> c[j]]

\* Two candidates on opposite sides of the 5000-byte boundary, the loser among
\* them, each cached in its own bucket.
C7_Witness ==
    /\ ipc = "done"
    /\ icon_name # None
    /\ Len(tree) = 2
    /\ tree[1].size = 5000 /\ tree[2].size = 4999
    /\ tree[1].name = tree[2].name
    /\ best_icon = 1
    /\ cache[<<"32x32/apps", PathStem(tree[1].name)>>].at = 1
    /\ cache[<<"16x16/apps", PathStem(tree[2].name)>>].at = 2

\* The rank of a format in the preference order: SVG, PNG, XPM, ICO (0: the
\* file has none of the four suffixes).
FormatRank(f) ==
    CASE FormatOf(f) = <<".","s","v","g">> -> 4
      [] FormatOf(f) = <<".","p","n","g">> -> 3
      [] FormatOf(f) = <<".","x","p","m">> -> 2
      [] FormatOf(f) = <<".","i","c","o">> -> 1
      [] OTHER -> 0

\* C11: icon selection honours the format preference order SVG, PNG, XPM, ICO:
\* whatever the byte sizes and pixel dimensions, the winning candidate is never
\* of a less-preferred format than another enumerated candidate.
C11_FormatOrderHonoured ==
    (ipc = "done" /\ icon_name # None) =>
        \A c \in {FindIconFiles(tree)} :
            \A k \in 1..Len(c) :
                (FormatRank(tree[best_icon]) > 0 /\ FormatRank(tree[c[k]]) > 0)
                    => FormatRank(tree[c[k]]) <= FormatRank(tree[best_icon])

\* C12: whenever extract_and_cache_icons returns an identifier, the cache
\* holds a file of that name in the winning candidate's bucket (scalable/apps
\* for an SVG, its size bucket otherwise) and the file is the winning
\* candidate's, also when several candidates share a stem.
C12_CacheHoldsWinner ==
    (ipc = "done" /\ icon_name # None) =>
        \A d \in {<<SpecBucket(tree[best_icon]), icon_name>>} :
            /\ d \in DOMAIN cache
            /\ cache[d].file = tree[best_icon]

(***************************************************************************)
(* Claims about generate_desktop_file.                                     *)
(***************************************************************************)
\* The eight lines of the entry template for a bundle and an icon.
EntryLines(path, icon) ==
    << <<"[","D","e","s","k","t","o","p"," ","E","n","t","r","y","]">>,
       <<"T","y","p","e","=","A","p","p","l","i","c","a","t","i","o","n">>,
       <<"N","a","m","e","=">> \o PathStem(path),
       <<"C","o","m","m","e","n","t","=","A","p","p","I","m","a","g","e"," ","A","p","p","l","i","c","a","t","i","o","n">>,
       <<"E","x","e","c","=">> \o path \o <<" ","%","u">>,
       <<"I","c","o","n","=">> \o icon,
       <<"T","e","r","m","i","n","a","l","=","f","a","l","s","e">>,
       <<"C","a","t","e","g","o","r","i","e","s","=">> \o detect_category(PathStem(path)) >>

\* The text of a file made of these lines, each ended by a newline.
RECURSIVE JoinLines(_)
JoinLines(lines) ==
    IF lines = <<>> THEN <<>>
    ELSE Head(lines) \o <<"\n">> \o JoinLines(Tail(lines))

EntryOf(p) == FileAt(desktop, PathStem(run[p].appimage_path) \o <<".","d","e","s","k","t","o","p">>)

\* C1: if the bundle's extraction fails (the executable cannot be launched, it
\* exits non-zero, or it times out), generate_desktop_file still writes
\* <name>.desktop, with the line Icon=application-x-executable.  That is: no
\* such failure keeps the run from the write, and whenever the open and the
\* write of the entry themselves succeed the file is the template with the
\* fallback icon.
C1_FallbackOnExtractionFailure ==
    \A p \in Procs :
        (/\ run[p].pc = "return"
         /\ run[p].extraction \in {"launch_error", "nonzero_exit", "timeout"}) =>
            /\ run[p].error # "mkdir"
            /\ run[p].error \notin {"open", "write"} =>
                  /\ EntryOf(p).exists
                  /\ EntryOf(p).content =
                         JoinLines(EntryLines(run[p].appimage_path, FallbackIcon))
                  /\ EntryLines(run[p].appimage_path, FallbackIcon)[6]
                         = <<"I","c","o","n","=","a","p","p","l","i","c","a","t","i","o","n","-","x","-","e","x","e","c","u","t","a","b","l","e">>

\* The extraction timed out and the entry left by something else was replaced
\* by the template with the fallback icon.
C1_Witness ==
    /\ run["once"].pc = "return"
    /\ run["once"].extraction = "timeout"
    /\ run["once"].prior = OldEntry
    /\ EntryOf("once").content =
           JoinLines(EntryLines(run["once"].appimage_path, FallbackIcon))

\* C2: generation is idempotent: with the same bundle and the environment
\* behaving the same way at every step, a second run in a row leaves the
\* applications directory (the set of entry files, their bytes, their modes) as
\* the first left it; and a run that writes leaves exactly the one template,
\* nothing appended, no second entry.
C2_Idempotent ==
    (round = 2 /\ run["once"].pc = "return") =>
        /\ desktop = after_first
        /\ (script.outcome # "mkdir_error" /\ script.open /\ script.write) =>
              /\ DOMAIN desktop = {PathStem(run["once"].appimage_path) \o <<".","d","e","s","k","t","o","p">>}
              /\ EntryOf("once").content =
                     JoinLines(EntryLines(run["once"].appimage_path,
                         IF run["once"].icon_name # None
                         THEN run["once"].icon_name ELSE FallbackIcon))

\* The second run has returned, having rewritten the entry, with an extracted
\* icon, over the entry the first run wrote.
C2_Witness ==
    /\ round = 2
    /\ run["once"].pc = "return"
    /\ run["once"].error = "none"
    /\ run["once"].icon_name # None
    /\ run["once"].prior.content = run["once"].desktop_content
    /\ EntryOf("once").content = run["once"].desktop_content

\* C3: entry-file writes are whole-file overwrites and the last writer wins:
\* however the steps of two runs for the same entry file interleave, once both
\* runs have opened the file, written their content and returned, the file
\* holds exactly the content one of the two runs rendered, never a mixture.
C3_LastWriterWins ==
    (/\ \A p \in Procs : run[p].pc = "return" /\ run[p].error = "none"
     /\ DesktopFileName(run["once"].appimage_path)
            = DesktopFileName(run["monitor"].appimage_path))
    => EntryOf("once").content \in {run[p].desktop_content : p \in Procs}

\* C5: whatever fails during a run, when the run returns the entry file is
\* either not written by this run (absent, or holding its prior content
\* untouched) or holds the complete eight-line template with the extracted icon
\* or the fallback icon; it is never empty, truncated or partial.
C5_NeverPartial ==
    \A p \in Procs :
        run[p].pc = "return" =>
            \/ EntryOf(p) = run[p].prior
            \/ /\ EntryOf(p).exists
               /\ \E icon \in {FallbackIcon, run[p].icon_name} \ {None} :
                     EntryOf(p).content =
                         JoinLines(EntryLines(run[p].appimage_path, icon))

(***************************************************************************)
(* Claims about the one-shot script.                                       *)
(***************************************************************************)
\* The bundles the script discovers: the files of the directory named *.AppImage.
Discovered ==
    {AppImageDir \o <<"/">> \o listing[i] :
        i \in {j \in 1..Len(listing) : EndsWith(listing[j], AppImageExt)}}

\* C4: no failure of a single bundle is fatal to a batch run: whichever step
\* fails (cache directory creation, extraction, icon copy, entry write, chmod,
\* database refresh), generate_desktop_file returns without an exception
\* leaving it, and the driver invokes generation exactly once for every
\* discovered bundle and then terminates.
C4_BatchSurvivesFailures ==
    /\ [](/\ run["once"].pc # "raised"
          /\ main_pc # "crashed"
          /\ \A path \in DOMAIN calls : calls[path] <= 1
          /\ main_pc = "done" =>
                /\ DOMAIN calls = Discovered
                /\ \A path \in Discovered : calls[path] = 1)
    /\ <>(main_pc = "done")

\* The script ended after two bundles, the first of which failed (its error
\* was logged) and the second of which got its entry.
C4_Witness ==
    /\ main_pc = "done"
    /\ Len(appimages) = 2
    /\ appimages[1] \in error_log
    /\ appimages[2] \notin error_log
    /\ calls[appimages[2]] = 1
    /\ FileAt(desktop, DesktopFileName(appimages[2])).content
           = run["once"].desktop_content

(***************************************************************************)
(* Claims about watch mode.                                                *)
(***************************************************************************)
\* The events that are to trigger a run, and the path the run is for
IsTrigger(e) ==
    /\ ~e.is_directory
    /\ \/ e.event_type = "created" /\ EndsWith(e.src_path, <<".","A","p","p","I","m","a","g","e">>)
       \/ e.event_type = "moved" /\ EndsWith(e.dest_path, <<".","A","p","p","I","m","a","g","e">>)

TriggerPath(e) == IF e.event_type = "moved" THEN e.dest_path ELSE e.src_path

RECURSIVE ExpectedRuns(_)
ExpectedRuns(events) ==
    IF events = <<>> THEN <<>>
    ELSE (IF IsTrigger(Head(events)) THEN <<TriggerPath(Head(events))>> ELSE <<>>)
         \o ExpectedRuns(Tail(events))

\* C9: in watch mode an event triggers generation if and only if it is a
\* non-directory create event whose source path ends with '.AppImage' or a
\* non-directory move event whose destination path ends with '.AppImage';
\* each such event triggers exactly one run, for that path (the destination
\* for moves), so the runs made are the trigger paths of the events handled,
\* in order; and handling any other event starts no run and changes no entry
\* file.
C9_TriggersExactly ==
    /\ [](\A r \in {ExpectedRuns(dispatched)} :
             /\ runs = r
             /\ HandlerFree => run["monitor"].pc = (IF r = <<>> THEN "idle" ELSE "return")
             /\ ~HandlerFree => run["monitor"].appimage_path = r[Len(r)])
    /\ [][(dispatched' # dispatched /\ ~IsTrigger(Head(queue)))
             => UNCHANGED <<desktop, cache, run, runs>>]_vars

C9_Witness ==
    /\ Len(dispatched) = 2
    /\ dispatched[1].event_type = "moved" /\ IsTrigger(dispatched[1])
    /\ dispatched[2].event_type = "moved" /\ ~dispatched[2].is_directory
    /\ ~IsTrigger(dispatched[2])
    /\ runs = <<dispatched[1].dest_path>>
    /\ run["monitor"].pc = "return" /\ run["monitor"].error = "none"
    /\ EntryOf("monitor").content = run["monitor"].desktop_content

=============================================================================
